---------------------------- MODULE Spec2Model ----------------------------
(***************************************************************************)
(* Model of core/model/request.py: the Request entity's attribute          *)
(* normalisation (before_attribute_check), its validator table             *)
(* (_lambda_checks) and the cmsDriver command builder (get_sequence_name,  *)
(* build_cmsdriver, get_cmsdriver).                                        *)
(*                                                                         *)
(* Python strings are sequences of one-character strings, so formatting,   *)
(* rstrip, split, replace, startswith and sorted() are computed and not    *)
(* assumed.  A Python dict is a sequence of key/value entries with         *)
(* distinct keys, in insertion order.  A Python value is a record tagged   *)
(* with its type.                                                          *)
(***************************************************************************)
EXTENDS Integers, Sequences, FiniteSets, TLC

VARIABLES
    prepid,          \* Request field 'prepid'
    input_dataset,   \* Request field 'input_dataset'
    sequences,       \* Request field 'sequences': list of dicts
    runs,            \* Request field 'runs'
    cmssw_release,   \* Request field 'cmssw_release'
    arguments,       \* the mapping object a caller holds and passes to build_cmsdriver
    ret,             \* outcome of the call that has returned, NoCall once the caller took it
    first            \* outcomes remembered from the first call with given inputs

vars == <<prepid, input_dataset, sequences, runs, cmssw_release, arguments, ret, first>>

(***************************************************************************)
(* String literals of the source                                           *)
K_config_id ==
    <<"c", "o", "n", "f", "i", "g", "_", "i", "d">>

K_harvesting_config_id ==
    <<"h", "a", "r", "v", "e", "s", "t", "i", "n", "g", "_", "c", "o", "n", "f", "i", "g", "_", "i", "d">>

K_filein ==
    <<"f", "i", "l", "e", "i", "n">>

K_fileout ==
    <<"f", "i", "l", "e", "o", "u", "t">>

K_python_filename ==
    <<"p", "y", "t", "h", "o", "n", "_", "f", "i", "l", "e", "n", "a", "m", "e">>

K_data ==
    <<"d", "a", "t", "a">>

K_no_exec ==
    <<"n", "o", "_", "e", "x", "e", "c">>

K_runUnscheduled ==
    <<"r", "u", "n", "U", "n", "s", "c", "h", "e", "d", "u", "l", "e", "d">>

K_conditions ==
    <<"c", "o", "n", "d", "i", "t", "i", "o", "n", "s">>

K_step ==
    <<"s", "t", "e", "p">>

K_era ==
    <<"e", "r", "a">>

K_scenario ==
    <<"s", "c", "e", "n", "a", "r", "i", "o">>

D_nThreads ==
    <<"n", "T", "h", "r", "e", "a", "d", "s">>

D_Zeta ==
    <<"Z", "e", "t", "a">>

T_CommandFor ==
    <<"#", " ", "C", "o", "m", "m", "a", "n", "d", " ", "f", "o", "r", " ">>

T_CmsDriver ==
    <<":", "\n", "c", "m", "s", "D", "r", "i", "v", "e", "r", ".", "p", "y", " ">>

T_ArgumentsFor ==
    <<"#", " ", "A", "r", "g", "u", "m", "e", "n", "t", "s", " ", "f", "o", "r", " ">>

T_ColonNl ==
    <<":", "\n">>

T_Dashes ==
    <<" ", "-", "-">>

T_HashDashes ==
    <<"#", " ", "-", "-">>

T_Space ==
    <<" ">>

T_Nl ==
    <<"\n">>

T_Comma ==
    <<",">>

T_Underscore ==
    <<"_">>

T_Quote ==
    <<"\"">>

T_DbsOpen ==
    <<"\"", "d", "b", "s", ":">>

T_FileOpen ==
    <<"\"", "f", "i", "l", "e", ":">>

T_RootClose ==
    <<".", "r", "o", "o", "t", "\"">>

T_Root ==
    <<".", "r", "o", "o", "t">>

T_CfgClose ==
    <<"_", "c", "f", "g", ".", "p", "y", "\"">>

T_InDQMClose ==
    <<"_", "i", "n", "D", "Q", "M", ".", "r", "o", "o", "t", "\"">>

T_HarvestCfgClose ==
    <<"_", "h", "a", "r", "v", "e", "s", "t", "_", "c", "f", "g", ".", "p", "y", "\"">>

T_RECO ==
    <<"R", "E", "C", "O">>

T_HARVESTING ==
    <<"H", "A", "R", "V", "E", "S", "T", "I", "N", "G">>

T_DQM ==
    <<"D", "Q", "M">>

T_DQMColon ==
    <<"D", "Q", "M", ":">>

T_HARVESTINGColon ==
    <<"H", "A", "R", "V", "E", "S", "T", "I", "N", "G", ":">>

D_CMSSW ==
    <<"C", "M", "S", "S", "W", "_">>

D_ABC ==
    <<"A", "B", "-", "1">>

D_XY ==
    <<"X", "_", "2">>

D_Dataset ==
    <<"/", "X", "/", "Y">>

D_RAW ==
    <<"R", "A", "W">>

D_DQMfoo ==
    <<"D", "Q", "M", ":", "f", "o", "o">>

D_DQMbar ==
    <<"D", "Q", "M", ":", "b", "a", "r">>

D_DQMIO ==
    <<"D", "Q", "M", "I", "O">>

D_HARVfoo ==
    <<"H", "A", "R", "V", "E", "S", "T", "I", "N", "G", ":", "f", "o", "o">>

D_HARVbar ==
    <<"H", "A", "R", "V", "E", "S", "T", "I", "N", "G", ":", "b", "a", "r">>

D_Run3 ==
    <<"R", "u", "n", "3">>

D_Run3extra ==
    <<"R", "u", "n", "3", ",", "e", "x", "t", "r", "a">>

D_GT ==
    <<"G", "T">>

D_pp ==
    <<"p", "p">>

D_Custom ==
    <<"f", "i", "l", "e", ":", "i", "n", ".", "r", "o", "o", "t">>

D_cfg ==
    <<"c", "1">>

(***************************************************************************)
(* Python str                                                              *)
(***************************************************************************)
\* The characters in use, in code point order (the order str comparison uses).
Chars ==
    <<"\n", " ", "\"", "#", ",", "-", ".", "/",
      "0", "1", "2", "3", "4", "5", "6", "7", "8", "9", ":",
      "A", "B", "C", "D", "E", "F", "G", "H", "I", "J", "K", "L", "M",
      "N", "O", "P", "Q", "R", "S", "T", "U", "V", "W", "X", "Y", "Z", "_",
      "a", "b", "c", "d", "e", "f", "g", "h", "i", "j", "k", "l", "m",
      "n", "o", "p", "q", "r", "s", "t", "u", "v", "w", "x", "y", "z">>

\* ord(c) of every character in use, up to an order-preserving renumbering
CodePoints ==
    [c \in {Chars[i] : i \in 1..Len(Chars)} |-> CHOOSE i \in 1..Len(Chars) : Chars[i] = c]

ord(c) ==
    CodePoints[c]

Whitespace ==
    {" ", "\n"}

Digits ==
    <<"0", "1", "2", "3", "4", "5", "6", "7", "8", "9">>

\* a < b on str
RECURSIVE StrLess(_, _)
StrLess(a, b) ==
    IF b = <<>> THEN FALSE
    ELSE IF a = <<>> THEN TRUE
    ELSE IF ord(Head(a)) < ord(Head(b)) THEN TRUE
    ELSE IF ord(Head(a)) > ord(Head(b)) THEN FALSE
    ELSE StrLess(Tail(a), Tail(b))

RECURSIVE SortedInsert(_, _)
SortedInsert(k, s) ==
    IF s = <<>> THEN <<k>>
    ELSE IF StrLess(k, Head(s)) THEN <<k>> \o s
    ELSE <<Head(s)>> \o SortedInsert(k, Tail(s))

RECURSIVE sortedLoop(_)
sortedLoop(s) ==
    IF s = <<>> THEN <<>> ELSE SortedInsert(Head(s), sortedLoop(Tail(s)))

\* Variant: the keys are taken in the dict's own order
sorted_not(s) ==
    s

\* sorted(arguments.keys())
sorted(s) ==
    sortedLoop(s)

RECURSIVE NatToStr(_)
NatToStr(n) ==
    IF n < 10 THEN <<Digits[n + 1]>>
    ELSE NatToStr(n \div 10) \o <<Digits[(n % 10) + 1]>>

\* str(n) of an int, as an f-string formats it
IntToStr(n) ==
    IF n < 0 THEN <<"-">> \o NatToStr(0 - n) ELSE NatToStr(n)

RECURSIVE rstrip(_)
rstrip(s) ==
    IF s # <<>> /\ s[Len(s)] \in Whitespace
    THEN rstrip(SubSeq(s, 1, Len(s) - 1))
    ELSE s

startswith(s, p) ==
    Len(s) >= Len(p) /\ SubSeq(s, 1, Len(p)) = p

\* s.find(sub) + 1: the first position where sub occurs, 0 when it does not
Find(s, sub) ==
    LET At(i) == SubSeq(s, i, i + Len(sub) - 1) = sub
        Hits == {i \in 1..(Len(s) - Len(sub) + 1) : At(i)}
    IN  IF Hits = {} THEN 0 ELSE CHOOSE i \in Hits : \A j \in Hits : i <= j

\* s.replace(old, new, 1)
replace1(s, old, new) ==
    LET i == Find(s, old)
    IN  IF i = 0 THEN s
        ELSE SubSeq(s, 1, i - 1) \o new \o SubSeq(s, i + Len(old), Len(s))

\* s.split(sep)[0]
splitFirst(s, sep) ==
    LET i == Find(s, sep)
    IN  IF i = 0 THEN s ELSE SubSeq(s, 1, i - 1)

\* sep.join(l)
RECURSIVE join(_, _)
join(sep, l) ==
    IF l = <<>> THEN <<>>
    ELSE IF Len(l) = 1 THEN l[1]
    ELSE l[1] \o sep \o join(sep, Tail(l))

(***************************************************************************)
(* Python values and dicts                                                 *)
(***************************************************************************)
VStr(x) ==
    [t |-> "str", s |-> x, b |-> FALSE, n |-> 0, l |-> <<>>]

VBool(x) ==
    [t |-> "bool", s |-> <<>>, b |-> x, n |-> 0, l |-> <<>>]

VInt(x) ==
    [t |-> "int", s |-> <<>>, b |-> FALSE, n |-> x, l |-> <<>>]

VList(x) ==
    [t |-> "list", s |-> <<>>, b |-> FALSE, n |-> 0, l |-> x]

VNone ==
    [t |-> "none", s |-> <<>>, b |-> FALSE, n |-> 0, l |-> <<>>]

\* bool(v)
truthy(v) ==
    CASE v.t = "str" -> v.s # <<>>
      [] v.t = "bool" -> v.b
      [] v.t = "int" -> v.n # 0
      [] v.t = "list" -> v.l # <<>>
      [] v.t = "none" -> FALSE

\* str(v), the text an f-string puts for v
str(v) ==
    CASE v.t = "str" -> v.s
      [] v.t = "int" -> IntToStr(v.n)
      [] v.t = "bool" -> IF v.b THEN <<"T", "r", "u", "e">> ELSE <<"F", "a", "l", "s", "e">>
      [] v.t = "none" -> <<"N", "o", "n", "e">>

RECURSIVE DictKeys(_)
DictKeys(d) ==
    IF d = <<>> THEN <<>> ELSE <<Head(d).k>> \o DictKeys(Tail(d))

DictHas(d, key) ==
    \E i \in 1..Len(d) : d[i].k = key

\* d[key] of a present key
DictGet(d, key) ==
    d[CHOOSE i \in 1..Len(d) : d[i].k = key].v

\* d[key] = value
DictSet(d, key, value) ==
    IF DictHas(d, key)
    THEN LET i == CHOOSE j \in 1..Len(d) : d[j].k = key
         IN  [d EXCEPT ![i] = [k |-> key, v |-> value]]
    ELSE Append(d, [k |-> key, v |-> value])

\* del d[key]
DictDel(d, key) ==
    SelectSeq(d, LAMBDA e : e.k # key)

(***************************************************************************)
(* Request.get_sequence_name                                               *)
(***************************************************************************)
\* Variant: the suffix is dropped one index too late
get_sequence_name_past_end(sequence_index) ==
    IF sequence_index # Len(sequences)
    THEN prepid \o T_Underscore \o IntToStr(sequence_index)
    ELSE prepid

get_sequence_name(sequence_index) ==
    IF sequence_index # Len(sequences) - 1
    THEN prepid \o T_Underscore \o IntToStr(sequence_index)
    ELSE prepid

(***************************************************************************)
(* Request.build_cmsdriver                                                 *)
(***************************************************************************)
\* The for loop over the sorted keys; args is the caller's dict, changed in place.
RECURSIVE build_loop(_, _, _, _)
build_loop(keys, args, command, comment) ==
    IF keys = <<>>
    THEN [arguments |-> args, command |-> command, comment |-> comment]
    ELSE LET key == Head(keys)
             v0 == DictGet(args, key)
         IN  IF ~truthy(v0)
             THEN build_loop(Tail(keys), args, command, comment)
             ELSE LET a1 == IF v0.t = "bool" THEN DictSet(args, key, VStr(<<>>)) ELSE args
                      v1 == DictGet(a1, key)
                      a2 == IF v1.t = "list"
                            THEN DictSet(a1, key, VStr(join(T_Comma, v1.l)))
                            ELSE a1
                      v2 == DictGet(a2, key)
                  IN  build_loop(Tail(keys), a2,
                          command \o rstrip(T_Dashes \o key \o T_Space \o str(v2)),
                          comment \o rstrip(T_HashDashes \o key \o T_Space \o str(v2)) \o T_Nl)

\* Returns the text and the caller's dict as the call leaves it.
build_cmsdriver(cmsdriver_type, args) ==
    LET r == build_loop(sorted(DictKeys(args)), args,
                        T_CommandFor \o cmsdriver_type \o T_CmsDriver \o cmsdriver_type,
                        T_ArgumentsFor \o cmsdriver_type \o T_ColonNl)
    IN  [text |-> r.comment \o T_Nl \o r.command, arguments |-> r.arguments]

(***************************************************************************)
(* Collaborators whose code is outside the modelled file                   *)
(***************************************************************************)
\* Sequence.get('step'): the stored step list, the schema default [] if unset
Sequence_get_step(sequence_json) ==
    IF DictHas(sequence_json, K_step) THEN DictGet(sequence_json, K_step).l ELSE <<>>

IsDQM(one_step) ==
    one_step = T_DQM \/ startswith(one_step, T_DQMColon)

\* Sequence.needs_harvesting
needs_harvesting(sequence_json) ==
    \E i \in 1..Len(Sequence_get_step(sequence_json)) :
        IsDQM(Sequence_get_step(sequence_json)[i])

(***************************************************************************)
(* Request.get_cmsdriver                                                   *)
(***************************************************************************)
\* list[i] of Python: a negative i counts from the end
ListIndexOk(l, i) ==
    (0 - Len(l)) <= i /\ i < Len(l)

ListGet(l, i) ==
    IF i >= 0 THEN l[i + 1] ELSE l[Len(l) + i + 1]

\* The stored sequence dict after the call: the call works on dict(sequence_json), a copy.
sequence_json_after(sequence_json, arguments_dict) ==
    sequence_json

StripMetadata(d) ==
    LET d1 == IF DictHas(d, K_config_id) THEN DictDel(d, K_config_id) ELSE d
    IN  IF DictHas(d1, K_harvesting_config_id) THEN DictDel(d1, K_harvesting_config_id) ELSE d1

\* Variant: the input file is named after this sequence and not the previous one
SetFilein_same_index(arguments_dict, sequence_index, overwrite_input) ==
    IF truthy(overwrite_input)
    THEN DictSet(arguments_dict, K_filein, overwrite_input)
    ELSE IF sequence_index = 0
         THEN DictSet(arguments_dict, K_filein,
                      VStr(T_DbsOpen \o input_dataset \o T_Quote))
         ELSE DictSet(arguments_dict, K_filein,
                      VStr(T_FileOpen \o get_sequence_name(sequence_index) \o T_Root \o T_Quote))

\* Lines 157-166
SetFilein(arguments_dict, sequence_index, overwrite_input) ==
    IF truthy(overwrite_input)
    THEN DictSet(arguments_dict, K_filein, overwrite_input)
    ELSE IF sequence_index = 0
         THEN DictSet(arguments_dict, K_filein,
                      VStr(T_DbsOpen \o input_dataset \o T_Quote))
         ELSE DictSet(arguments_dict, K_filein,
                      VStr(T_FileOpen \o get_sequence_name(sequence_index - 1) \o T_Root \o T_Quote))

\* Lines 168-174
SetFixed(arguments_dict, sequence_index) ==
    LET a1 == DictSet(arguments_dict, K_fileout,
                      VStr(T_FileOpen \o get_sequence_name(sequence_index) \o T_RootClose))
        a2 == DictSet(a1, K_python_filename,
                      VStr(T_Quote \o prepid \o T_Underscore \o IntToStr(sequence_index) \o T_CfgClose))
        a3 == DictSet(a2, K_data, VBool(TRUE))
        a4 == DictSet(a3, K_no_exec, VBool(TRUE))
    IN  DictSet(a4, K_runUnscheduled, VBool(TRUE))

\* Variant: the loop has no break, the last matching entry names the step
RECURSIVE harvest_step_last(_)
harvest_step_last(steps) ==
    IF steps = <<>> THEN [bound |-> FALSE, step |-> <<>>]
    ELSE LET later == harvest_step_last(Tail(steps))
         IN  IF later.bound THEN later
             ELSE IF Head(steps) = T_DQM THEN [bound |-> TRUE, step |-> T_HARVESTING]
             ELSE IF startswith(Head(steps), T_DQMColon)
                  THEN [bound |-> TRUE,
                        step |-> replace1(Head(steps), T_DQMColon, T_HARVESTINGColon)]
             ELSE later

\* Lines 181-187: the first entry that is DQM or starts with DQM: names the step
RECURSIVE harvest_step(_)
harvest_step(steps) ==
    IF steps = <<>> THEN [bound |-> FALSE, step |-> <<>>]
    ELSE IF Head(steps) = T_DQM THEN [bound |-> TRUE, step |-> T_HARVESTING]
    ELSE IF startswith(Head(steps), T_DQMColon)
         THEN [bound |-> TRUE, step |-> replace1(Head(steps), T_DQMColon, T_HARVESTINGColon)]
    ELSE harvest_step(Tail(steps))

\* What evaluating the dict display of lines 189-196 raises, "" if nothing
harvesting_error(arguments_dict, step) ==
    IF ~DictHas(arguments_dict, K_conditions) THEN "KeyError"
    ELSE IF ~step.bound THEN "UnboundLocalError"
    ELSE IF ~DictHas(arguments_dict, K_era) THEN "KeyError"
    ELSE IF DictGet(arguments_dict, K_era).t # "str" THEN "AttributeError"
    ELSE IF ~DictHas(arguments_dict, K_scenario) THEN "KeyError"
    ELSE ""

\* Lines 189-196
harvesting_dict(arguments_dict, step, sequence_name) ==
    << [k |-> K_conditions, v |-> DictGet(arguments_dict, K_conditions)],
       [k |-> K_step, v |-> VStr(step.step)],
       [k |-> K_era, v |-> VStr(splitFirst(DictGet(arguments_dict, K_era).s, T_Comma))],
       [k |-> K_scenario, v |-> DictGet(arguments_dict, K_scenario)],
       [k |-> K_data, v |-> VBool(TRUE)],
       [k |-> K_no_exec, v |-> VBool(TRUE)],
       [k |-> K_filein, v |-> VStr(T_FileOpen \o sequence_name \o T_InDQMClose)],
       [k |-> K_python_filename, v |-> VStr(T_Quote \o sequence_name \o T_HarvestCfgClose)] >>

\* Variant: the harvesting command is never appended
cms_driver_command_reco_only(reco, harvesting, needs_harvest) ==
    reco

\* Lines 197-199: the text returned
cms_driver_command(reco, harvesting, needs_harvest) ==
    IF needs_harvest THEN reco \o T_Nl \o T_Nl \o harvesting ELSE reco

\* An exception leaves the call; arguments_dict is the local dict as far as it got
Raised(error, arguments_dict) ==
    [status |-> error, text |-> <<>>, arguments_dict |-> arguments_dict, reco |-> <<>>,
     needs_harvest |-> FALSE, harvesting_dict |-> <<>>, harvesting |-> <<>>,
     sequences |-> sequences]

get_cmsdriver(sequence_index, overwrite_input) ==
    IF ~ListIndexOk(sequences, sequence_index) THEN Raised("IndexError", <<>>)
    ELSE
    LET sequence_json   == ListGet(sequences, sequence_index)
        arguments_dict  == SetFixed(SetFilein(StripMetadata(sequence_json),
                                              sequence_index, overwrite_input),
                                    sequence_index)
        sequence_name   == get_sequence_name(sequence_index)
        reco            == build_cmsdriver(T_RECO, arguments_dict)
        needs_harvest   == needs_harvesting(sequence_json)
        step            == harvest_step(Sequence_get_step(sequence_json))
        error           == harvesting_error(reco.arguments, step)
        hdict           == harvesting_dict(reco.arguments, step, sequence_name)
        harvesting      == build_cmsdriver(T_HARVESTING, hdict)
        stored          == sequence_json_after(sequence_json, reco.arguments)
        pos             == IF sequence_index >= 0 THEN sequence_index + 1
                           ELSE Len(sequences) + sequence_index + 1
    IN  IF needs_harvest /\ error # "" THEN Raised(error, arguments_dict)
        ELSE [status |-> "ok",
              text |-> cms_driver_command(reco.text,
                                          IF needs_harvest THEN harvesting.text ELSE <<>>,
                                          needs_harvest),
              arguments_dict |-> arguments_dict,
              reco |-> reco.text,
              needs_harvest |-> needs_harvest,
              harvesting_dict |-> IF needs_harvest THEN hdict ELSE <<>>,
              harvesting |-> IF needs_harvest THEN harvesting.text ELSE <<>>,
              sequences |-> [sequences EXCEPT ![pos] = stored]]

(***************************************************************************)
(* ModelBase.set and the Request hooks it calls                            *)
(***************************************************************************)
RECURSIVE StrToNat(_)
StrToNat(s) ==
    IF s = <<>> THEN 0
    ELSE 10 * StrToNat(SubSeq(s, 1, Len(s) - 1)) + (ord(s[Len(s)]) - ord("0"))

\* int(run)
int(v) ==
    IF v.t = "int" THEN VInt(v.n) ELSE VInt(StrToNat(v.s))

\* run not in runs
NotIn(run, l) ==
    \A i \in 1..Len(l) : l[i] # run

\* Request.before_attribute_check for 'runs'
RECURSIVE before_attribute_check_runs(_, _)
before_attribute_check_runs(attribute_value, acc) ==
    IF attribute_value = <<>> THEN acc
    ELSE before_attribute_check_runs(
             Tail(attribute_value),
             IF NotIn(Head(attribute_value), acc)
             THEN Append(acc, int(Head(attribute_value)))
             ELSE acc)

\* Request._lambda_checks['__runs']
lambda_runs(r) ==
    r.t = "int" /\ r.n > 0

\* ModelBase._lambda_checks['cmssw_release']: the release-name pattern
ModelBase_lambda_cmssw_release(cmssw) ==
    startswith(cmssw, D_CMSSW) /\ Len(cmssw) > Len(D_CMSSW)

\* Request._lambda_checks['cmssw_release']: the value the lambda returns.
\* It returns the ModelBase lambda itself, a function object, and does not call it.
lambda_cmssw_release(cmssw) ==
    [t |-> "function", s |-> <<>>, b |-> FALSE, n |-> 0, l |-> <<>>]

\* The truth value ModelBase.set takes a validator's result for
check_passes(result) ==
    IF result.t = "function" THEN TRUE ELSE truthy(result)

(***************************************************************************)
(* Inputs                                                                  *)
(***************************************************************************)
MaxSequences == 2
MaxIndex == 3
MaxArguments == 3
MaxRuns == 4

Entry(key, value) ==
    [k |-> key, v |-> value]

PrepIds ==
    {D_ABC, D_XY}

StepLists ==
    { <<D_RAW>>, <<D_RAW, T_DQM>>, <<D_DQMfoo, T_DQM>>,
      <<D_RAW, D_DQMbar, D_DQMfoo>>, <<D_DQMIO, D_RAW>> }

FullSequence(steps) ==
    << Entry(K_step, VList(steps)), Entry(K_scenario, VStr(D_pp)),
       Entry(K_config_id, VStr(D_cfg)), Entry(K_era, VStr(D_Run3extra)),
       Entry(K_conditions, VStr(D_GT)) >>

HarvestedSequence ==
    << Entry(D_nThreads, VInt(8)), Entry(K_harvesting_config_id, VStr(D_cfg)),
       Entry(K_conditions, VStr(D_GT)), Entry(K_era, VStr(D_Run3)),
       Entry(K_step, VList(<<D_RAW, D_DQMfoo>>)), Entry(K_scenario, VStr(D_pp)) >>

SequenceDicts ==
    {FullSequence(st) : st \in StepLists}
    \cup {DictDel(HarvestedSequence, key) : key \in {K_conditions, K_era, K_scenario}}
    \cup {DictSet(HarvestedSequence, key, VStr(<<>>)) : key \in {K_conditions, K_era, K_scenario}}
    \cup {DictSet(HarvestedSequence, K_era, v) : v \in {VNone, VList(<<D_Run3, D_GT>>)}}
    \cup {<<Entry(K_step, VList(<<D_RAW>>))>>}

SeqsUpTo(S, n) ==
    UNION {[1..m -> S] : m \in 0..n}

PlainSequence ==
    FullSequence(<<D_RAW>>)

\* The lists of sequences a Request is loaded with: at most one entry is not the plain one
RequestSequences(dicts) ==
    {l \in SeqsUpTo(dicts, MaxSequences) :
        \A i, j \in 1..Len(l) : (l[i] # PlainSequence /\ l[j] # PlainSequence) => i = j}

OverwriteInputs ==
    {VNone, VStr(<<>>), VStr(D_Custom)}

Indexes ==
    (0 - MaxIndex)..MaxIndex

Types ==
    {T_RECO, T_HARVESTING}

ArgumentEntries ==
    { Entry(K_step, VList(<<D_RAW, T_DQM>>)), Entry(K_step, VList(<<>>)),
      Entry(K_data, VBool(TRUE)), Entry(K_no_exec, VBool(FALSE)),
      Entry(D_Zeta, VStr(D_GT)), Entry(K_era, VStr(<<>>)),
      Entry(D_nThreads, VInt(8)), Entry(D_nThreads, VInt(0)),
      Entry(K_conditions, VNone) }

DistinctKeys(d) ==
    \A i, j \in 1..Len(d) : d[i].k = d[j].k => i = j

ArgumentDicts ==
    {d \in SeqsUpTo(ArgumentEntries, MaxArguments) : DistinctKeys(d)}

CallArgumentDicts ==
    { << Entry(K_step, VList(<<D_RAW, T_DQM>>)), Entry(K_data, VBool(TRUE)) >>,
      << Entry(K_era, VStr(D_Run3)) >> }

CallSequences ==
    { <<FullSequence(<<D_RAW, T_DQM>>)>>,
      <<PlainSequence, FullSequence(<<D_RAW, T_DQM>>)>> }

CallIndexes ==
    {0 - 1, 0, 1}

RunValues ==
    {VInt(5), VInt(3), VInt(0), VStr(<<"5">>)}

RunLists ==
    SeqsUpTo(RunValues, MaxRuns)

Releases ==
    {D_CMSSW \o <<"1">>, D_pp, <<>>}

(***************************************************************************)
(* State machine                                                           *)
(***************************************************************************)
NoCall ==
    [op |-> "none"]

NeverCalled ==
    [get_cmsdriver |-> NoCall, build_cmsdriver |-> NoCall]

\* A Request as the schema defaults and the loaded document leave it
InitRequest(ids, dicts) ==
    /\ prepid \in ids
    /\ input_dataset = D_Dataset
    /\ sequences \in dicts
    /\ runs = <<>>
    /\ cmssw_release = <<>>
    /\ ret = NoCall
    /\ first = NeverCalled

Init ==
    /\ InitRequest(PrepIds, RequestSequences(SequenceDicts))
    /\ arguments = <<>>

InitBuild ==
    /\ InitRequest({D_ABC}, {<<>>})
    /\ arguments \in ArgumentDicts

InitCalls ==
    /\ InitRequest({D_ABC}, CallSequences)
    /\ arguments \in CallArgumentDicts

InitAttr ==
    /\ InitRequest({D_ABC}, {<<>>})
    /\ arguments = <<>>

\* A caller asks for the name of a sequence
GetSequenceName(sequence_index) ==
    /\ ret = NoCall
    /\ ret' = [op |-> "get_sequence_name", sequence_index |-> sequence_index,
               r |-> get_sequence_name(sequence_index)]
    /\ UNCHANGED <<prepid, input_dataset, sequences, runs, cmssw_release, arguments, first>>

CallGetCmsdriver(sequence_index, overwrite_input) ==
    LET r == get_cmsdriver(sequence_index, overwrite_input)
    IN  /\ ret = NoCall
        /\ ret' = [op |-> "get_cmsdriver", sequence_index |-> sequence_index,
                   overwrite_input |-> overwrite_input, before |-> sequences,
                   r |-> [f \in DOMAIN r \ {"sequences"} |-> r[f]]]
        /\ sequences' = r.sequences
        /\ UNCHANGED <<prepid, input_dataset, runs, cmssw_release, arguments>>

\* get_cmsdriver(sequence_index, overwrite_input)
GetCmsdriver(sequence_index, overwrite_input) ==
    /\ CallGetCmsdriver(sequence_index, overwrite_input)
    /\ UNCHANGED first

\* The same call, which an observer remembers to compare later calls with
GetCmsdriverRemembered(sequence_index, overwrite_input) ==
    /\ first.get_cmsdriver = NoCall
    /\ CallGetCmsdriver(sequence_index, overwrite_input)
    /\ first' = [first EXCEPT !.get_cmsdriver = ret']

\* build_cmsdriver(cmsdriver_type, arguments) on the dict the caller holds
BuildCmsdriver(cmsdriver_type) ==
    LET r == build_cmsdriver(cmsdriver_type, arguments)
    IN  /\ ret = NoCall
        /\ ret' = [op |-> "build_cmsdriver", cmsdriver_type |-> cmsdriver_type,
                   passed |-> arguments, r |-> r]
        /\ arguments' = r.arguments
        /\ first' = IF first.build_cmsdriver = NoCall
                    THEN [first EXCEPT !.build_cmsdriver = ret']
                    ELSE first
        /\ UNCHANGED <<prepid, input_dataset, sequences, runs, cmssw_release>>

\* The caller makes a new dict
NewArguments(d) ==
    /\ ret = NoCall
    /\ arguments' = d
    /\ first' = [first EXCEPT !.build_cmsdriver = NoCall]
    /\ UNCHANGED <<prepid, input_dataset, sequences, runs, cmssw_release, ret>>

\* set('runs', attribute_value)
SetRuns(attribute_value) ==
    LET value == before_attribute_check_runs(attribute_value, <<>>)
        valid == \A i \in 1..Len(value) : lambda_runs(value[i])
    IN  /\ ret = NoCall
        /\ runs' = IF valid THEN value ELSE runs
        /\ ret' = [op |-> "set_runs", attribute_value |-> attribute_value, before |-> runs,
                   status |-> IF valid THEN "ok" ELSE "ValidationError"]
        /\ UNCHANGED <<prepid, input_dataset, sequences, cmssw_release, arguments, first>>

\* set('cmssw_release', attribute_value)
SetCmsswRelease(attribute_value) ==
    LET valid == check_passes(lambda_cmssw_release(attribute_value))
    IN  /\ ret = NoCall
        /\ cmssw_release' = IF valid THEN attribute_value ELSE cmssw_release
        /\ ret' = [op |-> "set_cmssw_release", attribute_value |-> attribute_value,
                   before |-> cmssw_release,
                   status |-> IF valid THEN "ok" ELSE "ValidationError"]
        /\ UNCHANGED <<prepid, input_dataset, sequences, runs, arguments, first>>

\* The caller takes the outcome; the calls are synchronous, one at a time
Return ==
    /\ ret # NoCall
    /\ ret' = NoCall
    /\ UNCHANGED <<prepid, input_dataset, sequences, runs, cmssw_release, arguments, first>>

Next ==
    \/ \E i \in Indexes : GetSequenceName(i)
    \/ \E i \in Indexes, o \in OverwriteInputs : GetCmsdriver(i, o)
    \/ Return

Spec ==
    Init /\ [][Next]_vars

NextBuild ==
    \/ \E t \in Types : BuildCmsdriver(t)
    \/ Return

SpecBuild ==
    InitBuild /\ [][NextBuild]_vars

NextCalls ==
    \/ \E i \in CallIndexes : GetCmsdriver(i, VNone)
    \/ \E i \in CallIndexes : GetCmsdriverRemembered(i, VNone)
    \/ \E t \in Types : BuildCmsdriver(t)
    \/ \E d \in CallArgumentDicts : NewArguments(d)
    \/ Return

SpecCalls ==
    InitCalls /\ [][NextCalls]_vars

NextAttr ==
    \/ \E v \in RunLists : SetRuns(v)
    \/ \E v \in Releases : SetCmsswRelease(v)
    \/ Return

SpecAttr ==
    InitAttr /\ [][NextAttr]_vars

(***************************************************************************)
(* Properties                                                              *)
(***************************************************************************)
\* sub occurs in s
Contains(s, sub) ==
    \E i \in 1..(Len(s) - Len(sub) + 1) : SubSeq(s, i, i + Len(sub) - 1) = sub

DigitSet ==
    {Digits[i] : i \in 1..Len(Digits)}

\* s is the decimal numeral of the natural number n
IsNumeral(s, n) ==
    /\ s # <<>>
    /\ \A i \in 1..Len(s) : s[i] \in DigitSet
    /\ Len(s) > 1 => s[1] # "0"
    /\ StrToNat(s) = n

\* The decimal text of each index, found by reading numerals back
DecimalOf ==
    [i \in (0 - 9)..9 |->
        CHOOSE s \in SeqsUpTo(DigitSet \cup {"-"}, 2) :
            IF i < 0 THEN s # <<>> /\ s[1] = "-" /\ IsNumeral(Tail(s), 0 - i)
            ELSE IsNumeral(s, i)]

\* The name the specification gives sequence i
SpecName(i) ==
    IF i = Len(sequences) - 1 THEN prepid ELSE prepid \o <<"_">> \o DecimalOf[i]

LocalFile(name) ==
    VStr(<<"\"", "f", "i", "l", "e", ":">> \o name \o <<".", "r", "o", "o", "t", "\"">>)

InRange(i) ==
    0 <= i /\ i < Len(sequences)

\* C2: get_sequence_name(i) is "<prepid>_<i>" for every index other than
\* len(sequences)-1 and "<prepid>" exactly at len(sequences)-1.
C2_SequenceName ==
    ret.op = "get_sequence_name" =>
        /\ ret.r = SpecName(ret.sequence_index)
        /\ (ret.r = prepid) <=> (ret.sequence_index = Len(sequences) - 1)

C2_Witness ==
    /\ ret.op = "get_sequence_name"
    /\ Len(sequences) >= 2
    /\ ret.sequence_index = Len(sequences) - 1
    /\ ret.r = prepid

\* C1: without overwrite_input, get_cmsdriver(i) of a valid index sets fileout to
\* "file:<name(i)>.root"; for i > 0 its filein is the file get_cmsdriver(i-1) sets as
\* fileout, "file:<prepid>_<i-1>.root"; for i = 0 its filein is "dbs:<input_dataset>";
\* the last index writes "file:<prepid>.root"; the returned text carries both.
C1_PipelineFiles ==
    (ret.op = "get_cmsdriver" /\ InRange(ret.sequence_index) /\ ret.overwrite_input = VNone) =>
        LET i == ret.sequence_index
            a == ret.r.arguments_dict
            filein == DictGet(a, K_filein)
            fileout == DictGet(a, K_fileout)
            previous == get_cmsdriver(i - 1, VNone).arguments_dict
        IN  /\ fileout = LocalFile(SpecName(i))
            /\ i = Len(sequences) - 1 => fileout = LocalFile(prepid)
            /\ i = 0 => filein = VStr(<<"\"", "d", "b", "s", ":">> \o input_dataset \o <<"\"">>)
            /\ i > 0 => /\ filein = LocalFile(prepid \o <<"_">> \o DecimalOf[i - 1])
                        /\ filein = DictGet(previous, K_fileout)
            /\ ret.r.status = "ok" =>
                   /\ Contains(ret.r.reco, <<" ", "-", "-">> \o K_fileout \o <<" ">> \o fileout.s)
                   /\ Contains(ret.r.reco, <<" ", "-", "-">> \o K_filein \o <<" ">> \o filein.s)

C1_Witness ==
    /\ ret.op = "get_cmsdriver"
    /\ ret.overwrite_input = VNone
    /\ Len(sequences) >= 2
    /\ ret.sequence_index = Len(sequences) - 1
    /\ ret.r.status = "ok"
    /\ DictGet(ret.r.arguments_dict, K_fileout) = LocalFile(prepid)
    /\ DictGet(ret.r.arguments_dict, K_filein)
           = DictGet(get_cmsdriver(ret.sequence_index - 1, VNone).arguments_dict, K_fileout)

\* The last line of a text
LastLine(text) ==
    LET Breaks == {i \in 1..Len(text) : text[i] = "\n"}
        last == IF Breaks = {} THEN 0 ELSE CHOOSE i \in Breaks : \A j \in Breaks : j <= i
    IN  SubSeq(text, last + 1, Len(text))

TruthyKeys(d) ==
    {d[i].k : i \in {j \in 1..Len(d) : truthy(d[j].v)}}

\* The keys of S from the least to the greatest
RECURSIVE Ascending(_)
Ascending(S) ==
    IF S = {} THEN <<>>
    ELSE LET least == CHOOSE k \in S : \A j \in S \ {k} : StrLess(k, j)
         IN  <<least>> \o Ascending(S \ {least})

RECURSIVE CommaJoined(_)
CommaJoined(l) ==
    IF Len(l) = 1 THEN l[1]
    ELSE CommaJoined(SubSeq(l, 1, Len(l) - 1)) \o <<",">> \o l[Len(l)]

\* What follows "--key": nothing for True, one token otherwise
ValueToken(v) ==
    CASE v.t = "bool" -> <<>>
      [] v.t = "list" -> <<" ">> \o CommaJoined(v.l)
      [] v.t = "str" -> <<" ">> \o v.s
      [] v.t = "int" -> <<" ">> \o DecimalOf[v.n]

RECURSIVE Flags(_, _)
Flags(keys, d) ==
    IF keys = <<>> THEN <<>>
    ELSE <<" ", "-", "-">> \o Head(keys) \o ValueToken(DictGet(d, Head(keys)))
         \o Flags(Tail(keys), d)

\* C3: the command line of build_cmsdriver(type, arguments) holds exactly the keys
\* with a truthy value, in lexicographic key order whatever the dict's order; a falsy
\* value's key is absent, True gives the bare flag, a list gives one comma-joined token.
C3_CommandLine ==
    ret.op = "build_cmsdriver" =>
        LastLine(ret.r.text)
            = <<"c", "m", "s", "D", "r", "i", "v", "e", "r", ".", "p", "y", " ">>
              \o ret.cmsdriver_type
              \o Flags(Ascending(TruthyKeys(ret.passed)), ret.passed)

C3_Witness ==
    /\ ret.op = "build_cmsdriver"
    /\ ret.passed = << Entry(K_step, VList(<<D_RAW, T_DQM>>)), Entry(K_no_exec, VBool(FALSE)),
                       Entry(K_data, VBool(TRUE)) >>
    /\ LastLine(ret.r.text)
           = <<"c", "m", "s", "D", "r", "i", "v", "e", "r", ".", "p", "y", " ">> \o T_RECO
             \o <<" ", "-", "-", "d", "a", "t", "a">>
             \o <<" ", "-", "-", "s", "t", "e", "p", " ", "R", "A", "W", ",", "D", "Q", "M">>

\* The step list stored in the sequence at a valid index i
StepsOf(i) ==
    LET d == sequences[i + 1]
    IN  IF DictHas(d, K_step) THEN DictGet(d, K_step).l ELSE <<>>

MatchesDQM(entry) ==
    \/ entry = <<"D", "Q", "M">>
    \/ Len(entry) >= 4 /\ SubSeq(entry, 1, 4) = <<"D", "Q", "M", ":">>

HasDQM(steps) ==
    \E k \in 1..Len(steps) : MatchesDQM(steps[k])

\* The number of command lines in a text
Commands(text) ==
    Cardinality({i \in 1..(Len(text) - 12) :
        SubSeq(text, i, i + 12) = <<"\n", "c", "m", "s", "D", "r", "i", "v", "e", "r", ".", "p", "y">>})

\* b is one command block of the given type: the argument comments, then the command
IsBlock(b, type) ==
    /\ startswith(b, <<"#", " ", "A", "r", "g", "u", "m", "e", "n", "t", "s", " ", "f", "o", "r", " ">>
                     \o type \o <<":", "\n">>)
    /\ startswith(LastLine(b), <<"c", "m", "s", "D", "r", "i", "v", "e", "r", ".", "p", "y", " ">> \o type)
    /\ Commands(b) = 1

\* C4: get_cmsdriver(i) appends a harvesting block if and only if the step list of
\* sequence i has an entry equal to "DQM" or starting with "DQM:"; with no such entry
\* the text is the RECO block alone, with one it is the RECO block, a blank line and
\* the HARVESTING block.
C4_HarvestingIff ==
    (ret.op = "get_cmsdriver" /\ InRange(ret.sequence_index)) =>
        IF HasDQM(StepsOf(ret.sequence_index))
        THEN ret.r.status = "ok" =>
                 /\ ret.r.text = ret.r.reco \o <<"\n", "\n">> \o ret.r.harvesting
                 /\ IsBlock(ret.r.reco, T_RECO)
                 /\ IsBlock(ret.r.harvesting, T_HARVESTING)
                 /\ Commands(ret.r.text) = 2
        ELSE /\ ret.r.status = "ok"
             /\ ret.r.text = ret.r.reco
             /\ IsBlock(ret.r.text, T_RECO)
             /\ ~Contains(ret.r.text, T_HARVESTING)

C4_Witness ==
    /\ ret.op = "get_cmsdriver"
    /\ InRange(ret.sequence_index)
    /\ StepsOf(ret.sequence_index) = <<D_RAW, T_DQM>>
    /\ ret.r.status = "ok"
    /\ Commands(ret.r.text) = 2
    /\ IsBlock(ret.r.harvesting, T_HARVESTING)

\* The text before the first comma
FirstToken(s) ==
    LET n == CHOOSE n \in 0..Len(s) :
                 /\ \A j \in 1..n : s[j] # ","
                 /\ n = Len(s) \/ s[n + 1] = ","
    IN  SubSeq(s, 1, n)

\* The era of the sequence at a valid index i, as its RECO command shows it
EraOf(i) ==
    LET v == DictGet(sequences[i + 1], K_era)
    IN  IF v.t = "list" THEN CommaJoined(v.l) ELSE v.s

\* The label the first matching entry of a step list gives
FirstMatchLabel(steps) ==
    LET k == CHOOSE k \in 1..Len(steps) :
                 MatchesDQM(steps[k]) /\ \A j \in 1..(k - 1) : ~MatchesDQM(steps[j])
    IN  IF steps[k] = <<"D", "Q", "M">> THEN T_HARVESTING
        ELSE T_HARVESTING \o <<":">> \o SubSeq(steps[k], 5, Len(steps[k]))

\* text has the flag --key with exactly this value
HasFlag(text, key, value) ==
    Contains(text \o <<" ">>, <<" ", "-", "-">> \o key \o <<" ">> \o value \o <<" ">>)

\* C10: with several DQM entries the first one in list order alone determines the
\* harvesting step, "HARVESTING" for "DQM" and "HARVESTING:<x>" for "DQM:<x>"; the
\* harvesting era is the first comma-separated token of the primary era.
C10_FirstMatchAndEra ==
    (/\ ret.op = "get_cmsdriver"
     /\ InRange(ret.sequence_index)
     /\ ret.r.status = "ok"
     /\ HasDQM(StepsOf(ret.sequence_index))) =>
        LET label == FirstMatchLabel(StepsOf(ret.sequence_index))
            token == FirstToken(EraOf(ret.sequence_index))
        IN  /\ DictGet(ret.r.harvesting_dict, K_step) = VStr(label)
            /\ DictGet(ret.r.harvesting_dict, K_era) = VStr(token)
            /\ HasFlag(LastLine(ret.r.harvesting), K_step, label)
            /\ token # <<>> => HasFlag(LastLine(ret.r.harvesting), K_era, token)

C10_Witness ==
    /\ ret.op = "get_cmsdriver"
    /\ InRange(ret.sequence_index)
    /\ ret.r.status = "ok"
    /\ StepsOf(ret.sequence_index) = <<D_RAW, D_DQMbar, D_DQMfoo>>
    /\ EraOf(ret.sequence_index) = D_Run3extra
    /\ DictGet(ret.r.harvesting_dict, K_step) = VStr(D_HARVbar)
    /\ DictGet(ret.r.harvesting_dict, K_era) = VStr(D_Run3)

\* C7: get_cmsdriver with an index that is no position of sequences, negative
\* indexes included, fails and returns no text.
C7_OutOfRangeFails ==
    (ret.op = "get_cmsdriver" /\ ~InRange(ret.sequence_index)) =>
        ret.r.status # "ok" /\ ret.r.text = <<>>

\* A field the sequence does not have or has empty
Missing(d, key) ==
    ~DictHas(d, key) \/ DictGet(d, key) \in {VNone, VStr(<<>>)}

\* C8: when sequence i needs harvesting and conditions, era or scenario is missing
\* from it, get_cmsdriver(i) fails and returns nothing.
C8_MissingFieldFails ==
    (/\ ret.op = "get_cmsdriver"
     /\ InRange(ret.sequence_index)
     /\ HasDQM(StepsOf(ret.sequence_index))
     /\ \E key \in {K_conditions, K_era, K_scenario} :
            Missing(sequences[ret.sequence_index + 1], key)) =>
        ret.r.status # "ok" /\ ret.r.text = <<>>

\* The integer a run stands for
RunNumber(v) ==
    IF v.t = "int" THEN v.n
    ELSE CHOOSE n \in 0..9 : IsNumeral(v.s, n)

\* The numbers of a list, each kept where it first occurs
RECURSIVE FirstOccurrences(_)
FirstOccurrences(l) ==
    IF l = <<>> THEN <<>>
    ELSE LET rest == FirstOccurrences(SubSeq(l, 1, Len(l) - 1))
             n == RunNumber(l[Len(l)])
         IN  IF \E i \in 1..Len(rest) : rest[i] = VInt(n) THEN rest ELSE Append(rest, VInt(n))

\* C5: set('runs', v) stores a list of integers in which no value occurs twice and
\* values keep the order of their first occurrence in v, also when elements need
\* coercion to integer; normalizing the stored list again returns it unchanged.
C5_RunsNormalized ==
    (ret.op = "set_runs" /\ ret.status = "ok") =>
        /\ \A i \in 1..Len(runs) : runs[i].t = "int"
        /\ \A i, j \in 1..Len(runs) : runs[i] = runs[j] => i = j
        /\ runs = FirstOccurrences(ret.attribute_value)
        /\ before_attribute_check_runs(runs, <<>>) = runs

\* C6: set('cmssw_release', v) with v not matching the release-name pattern fails
\* with a ValidationError and leaves the stored cmssw_release unchanged.
C6_ReleaseRejected ==
    (ret.op = "set_cmssw_release" /\ ~ModelBase_lambda_cmssw_release(ret.attribute_value)) =>
        ret.status = "ValidationError" /\ cmssw_release = ret.before

\* C9: get_cmsdriver(i) called again on the same Request returns the text of the
\* earlier get_cmsdriver(i) and leaves sequences unchanged; build_cmsdriver(type,
\* arguments) called again with the dict the caller passed the first time returns
\* the text of the first call.
C9_RepeatedCalls ==
    /\ (/\ ret.op = "get_cmsdriver"
        /\ first.get_cmsdriver # NoCall
        /\ ret.sequence_index = first.get_cmsdriver.sequence_index
        /\ ret.overwrite_input = first.get_cmsdriver.overwrite_input) =>
            /\ ret.r = first.get_cmsdriver.r
            /\ sequences = first.get_cmsdriver.before
    /\ (/\ ret.op = "build_cmsdriver"
        /\ first.build_cmsdriver # NoCall
        /\ ret.cmsdriver_type = first.build_cmsdriver.cmsdriver_type) =>
            ret.r.text = first.build_cmsdriver.r.text

=============================================================================
